---------------------------- MODULE Spec2Model ----------------------------
(***************************************************************************)
(* A model of src/sync.rs of the afpacket crate: the two packet-socket     *)
(* wrappers RawPacketStream and DgramPacketStream, the interface resolver  *)
(* index_by_name, and the part of the kernel they talk to (the descriptor  *)
(* table, the descriptor flags, the receive queue of a socket).            *)
(*                                                                         *)
(* Every public operation is one action that models the whole function,    *)
(* including the implicit drop of a by-value `self` at the end of its      *)
(* body.  The kernel's answers (a refused socket(), the index a name       *)
(* resolves to, a failing fcntl) are inputs drawn with \E.                 *)
(*                                                                         *)
(* The module holds four specifications over the same variables:           *)
(*   SpecOwn     descriptor ownership: new, clone, from_raw_fd,            *)
(*               into_raw_fd, drop, DgramPacketStream::new and its drop    *)
(*   SpecCfg     bind, set_promisc, set_ifname, set_dest, write            *)
(*   SpecFilter  set_bpf_filter                                            *)
(*   SpecIO      set_non_blocking, read, drain (with fairness)             *)
(***************************************************************************)
EXTENDS Integers, Sequences, FiniteSets, TLC

VARIABLES
    fds,          \* kernel: descriptor number -> socket it refers to (0: closed)
    nextSock,     \* kernel: number of sockets created so far
    raws,         \* the RawPacketStream values of the program, by slot
    dg,           \* the DgramPacketStream value of the program
    extracted,    \* descriptors returned by into_raw_fd, now held by the caller
    badClose,     \* history: a close() hit a descriptor that was not the closer's
    destroyed,    \* history: sockets whose owning stream value was destroyed
    failedCtor,   \* history: sockets opened by a constructor call that returned Err
    ksock,        \* kernel: the interface index the raw stream's socket is bound to
    flags,        \* kernel: descriptor status flags of the raw stream's socket
    queue,        \* kernel: receive queue of the raw stream's socket (frame lengths)
    sk_err,       \* kernel: pending asynchronous socket error ("" when none)
    arrivals,     \* environment: frames delivered so far
    pc,           \* where the caller is: "idle", "drain", "read"
    call,         \* the operation invoked last, with its arguments
    result,       \* what that operation returned
    syscalls,     \* the system calls that operation issued, in order
    littleEndian, \* the byte order of the host the build runs on
    hist          \* history the claims are stated against

vars == <<fds, nextSock, raws, dg, extracted, badClose, destroyed, failedCtor,
          ksock, flags, queue, sk_err, arrivals, pc, call, result, syscalls,
          littleEndian, hist>>

ownVars == <<fds, nextSock, raws, extracted, badClose, destroyed, failedCtor>>
ioVars  == <<flags, queue, sk_err, arrivals, pc>>

-----------------------------------------------------------------------------
(* Bounds of the model *)

MaxFds == 3
MaxSockets == 3
MaxRaw == 2
MaxNameLen == 18
MaxIfIndex == 2
MaxRules == 3
MaxArrivals == 2

(* Program constants *)

IFNAMSIZ == 16
O_RDWR == 2
O_APPEND == 1024
O_NONBLOCK == 2048
U16Mod == 2 ^ 16

FdRange == 3 .. (2 + MaxFds)
RawIds == 1 .. MaxRaw

\* Lengths of the interface names tried: the empty name, a usual one, and
\* every length around the kernel's buffer capacity up to MaxNameLen.
NameLens == {0, 4} \cup ((IFNAMSIZ - 1) .. MaxNameLen)

\* Interface names as byte strings: 'e' followed by 'a's.  No byte is 0.
Names ==
    { [i \in 1 .. n |-> IF i = 1 THEN 101 ELSE 97] : n \in NameLens }

Dests ==
    { <<255, 255, 255, 255, 255, 255, 0, 0>>, <<2, 0, 0, 0, 0, 1, 0, 0>> }

\* 0x0800 (IPv4), 0x88B5 (local experimental), 0x0003 (ETH_P_ALL)
Protocols == { 2048, 34997, 3 }

-----------------------------------------------------------------------------
(* Values *)

NoRaw == [live |-> FALSE, fd |-> -1, sock |-> 0]
NoDgram ==
    [live |-> FALSE, ifindex |-> 0, dest |-> <<0, 0, 0, 0, 0, 0, 0, 0>>,
     protocol_nbo |-> 0, fd |-> -1, sock |-> 0]
NoCall == [op |-> "none"]

\* u16::to_be: the value whose in-memory bytes are the big-endian bytes of x.
to_be(x) ==
    IF littleEndian THEN (x % 256) * 256 + (x \div 256) ELSE x

\* The bytes a u16 field holds in memory, lowest address first.
Bytes16(v) ==
    IF littleEndian THEN <<v % 256, v \div 256>> ELSE <<v \div 256, v % 256>>

\* Bitwise or of two naturals.
RECURSIVE BitOr(_, _)
BitOr(a, b) ==
    IF a = 0 THEN b
    ELSE IF b = 0 THEN a
    ELSE (IF a % 2 = 1 \/ b % 2 = 1 THEN 1 ELSE 0) + 2 * BitOr(a \div 2, b \div 2)

\* Whether bit `bit` (a power of two) is set in x.
HasBit(x, bit) == (x \div bit) % 2 = 1

-----------------------------------------------------------------------------
(* The kernel's descriptor table *)

FreeFds(t) == { f \in FdRange : t[f] = 0 }

\* socket(): the lowest free descriptor number.
LowestFree(t) == CHOOSE f \in FreeFds(t) : \A g \in FreeFds(t) : f <= g

\* close(fd) on the table.
KClose(t, fd) == [f \in FdRange |-> IF f = fd THEN 0 ELSE t[f]]

\* close(fd) issued by an owner that believes fd refers to socket `sock`: it is
\* a bad close when fd is closed already or refers to another socket by now.
IsBadClose(t, fd, sock) == t[fd] # sock


\* socket(AF_PACKET, ty, htons(ETH_P_ALL)): the new descriptor, or -1 when the
\* kernel refuses (no privilege, no free descriptor, no memory).
KSocket(ok) ==
    IF ok /\ FreeFds(fds) # {} /\ nextSock < MaxSockets THEN LowestFree(fds) ELSE -1

Res(tag, val) == [tag |-> tag, val |-> val]

-----------------------------------------------------------------------------
(* Interface Resolver *)

\* An index_by_name without the length check: the name is cut to the buffer.
index_by_name_unchecked(name, kidx) ==
    LET buf == [i \in 1 .. IFNAMSIZ |-> IF i <= Len(name) THEN name[i] ELSE 0]
    IN  [res   |-> IF kidx = 0 THEN Res("Err(OS)", 0) ELSE Res("Ok", kidx),
         calls |-> <<[call |-> "if_nametoindex", buf |-> buf]>>]

\* index_by_name(name), with kidx the kernel's answer to if_nametoindex.
index_by_name(name, kidx) ==
    IF Len(name) > IFNAMSIZ
    THEN [res |-> Res("Err(InvalidInput)", 0), calls |-> <<>>]
    ELSE LET buf == [i \in 1 .. IFNAMSIZ |-> IF i <= Len(name) THEN name[i] ELSE 0]
         IN  [res   |-> IF kidx = 0 THEN Res("Err(OS)", 0) ELSE Res("Ok", kidx),
              calls |-> <<[call |-> "if_nametoindex", buf |-> buf]>>]

-----------------------------------------------------------------------------
(* RawPacketStream: construction, ownership, destruction *)

SockCall(ty, ret) == [call |-> "socket", type |-> ty, ret |-> ret]
CloseCall(fd) == [call |-> "close", fd |-> fd]

\* RawPacketStream::new() into the free slot i.
RawPacketStream_new(i) ==
    /\ ~raws[i].live
    /\ \E ok \in BOOLEAN :
         LET fd == KSocket(ok) IN
         /\ call' = [op |-> "RawPacketStream::new"]
         /\ syscalls' = <<SockCall("SOCK_RAW", fd)>>
         /\ IF fd = -1
            THEN /\ result' = Res("Err(OS)", 0)
                 /\ UNCHANGED <<fds, nextSock, raws>>
            ELSE /\ result' = Res("Ok", fd)
                 /\ fds' = [fds EXCEPT ![fd] = nextSock + 1]
                 /\ nextSock' = nextSock + 1
                 /\ raws' = [raws EXCEPT ![i] = [live |-> TRUE, fd |-> fd, sock |-> nextSock + 1]]
    /\ UNCHANGED <<dg, extracted, badClose, destroyed, failedCtor, ksock, ioVars,
                   littleEndian, hist>>

\* #[derive(Clone)]: clone() of the stream in slot i into the free slot j copies
\* the descriptor number.
RawPacketStream_clone(i, j) ==
    /\ raws[i].live
    /\ ~raws[j].live
    /\ raws' = [raws EXCEPT ![j] = raws[i]]
    /\ call' = [op |-> "clone"]
    /\ result' = Res("Ok", raws[i].fd)
    /\ syscalls' = <<>>
    /\ UNCHANGED <<fds, nextSock, dg, extracted, badClose, destroyed, failedCtor, ksock,
                   ioVars, littleEndian, hist>>

\* Drop::drop(&mut self): close(self.0).
drop(s) == <<CloseCall(s.fd)>>

\* drop of the stream in slot i.
RawPacketStream_drop(i) ==
    /\ raws[i].live
    /\ LET s == raws[i]
           closes == drop(s) IN
       /\ fds' = IF closes # <<>> THEN KClose(fds, s.fd) ELSE fds
       /\ badClose' = (badClose \/ (closes # <<>> /\ IsBadClose(fds, s.fd, s.sock)))
       /\ destroyed' = destroyed \cup {s.sock}
       /\ syscalls' = closes
    /\ raws' = [raws EXCEPT ![i] = NoRaw]
    /\ call' = [op |-> "drop"]
    /\ result' = Res("Ok", 0)
    /\ UNCHANGED <<nextSock, dg, extracted, failedCtor, ksock, ioVars, littleEndian, hist>>

\* into_raw_fd(self): returns self.0; `self` is taken by value and never
\* forgotten, so it is dropped when the function returns and Drop::drop runs.
into_raw_fd(i) ==
    /\ raws[i].live
    /\ LET s == raws[i]
           closes == drop(s) IN
       /\ fds' = IF closes # <<>> THEN KClose(fds, s.fd) ELSE fds
       /\ badClose' = (badClose \/ (closes # <<>> /\ IsBadClose(fds, s.fd, s.sock)))
       /\ extracted' = extracted \cup {[fd |-> s.fd, sock |-> s.sock]}
       /\ syscalls' = closes
       /\ result' = Res("Ok", s.fd)
    /\ raws' = [raws EXCEPT ![i] = NoRaw]
    /\ call' = [op |-> "into_raw_fd"]
    /\ UNCHANGED <<nextSock, dg, destroyed, failedCtor, ksock, ioVars, littleEndian, hist>>

\* from_raw_fd(fd) into the free slot j, of a descriptor e the caller got from
\* into_raw_fd and that no live wrapper holds (the caller's side of the unsafe
\* contract).
from_raw_fd(j, e) ==
    /\ e \in extracted
    /\ ~raws[j].live
    /\ \A k \in RawIds : raws[k].live => raws[k].fd # e.fd
    /\ ~(dg.live /\ dg.fd = e.fd)
    /\ raws' = [raws EXCEPT ![j] = [live |-> TRUE, fd |-> e.fd, sock |-> e.sock]]
    /\ extracted' = extracted \ {e}
    /\ call' = [op |-> "from_raw_fd"]
    /\ result' = Res("Ok", e.fd)
    /\ syscalls' = <<>>
    /\ UNCHANGED <<fds, nextSock, dg, badClose, destroyed, failedCtor, ksock, ioVars,
                   littleEndian, hist>>

\* The caller closes a descriptor it got from into_raw_fd.
CallerClose(e) ==
    /\ e \in extracted
    /\ fds' = KClose(fds, e.fd)
    /\ badClose' = (badClose \/ IsBadClose(fds, e.fd, e.sock))
    /\ extracted' = extracted \ {e}
    /\ call' = [op |-> "caller close"]
    /\ result' = Res("Ok", 0)
    /\ syscalls' = <<CloseCall(e.fd)>>
    /\ UNCHANGED <<nextSock, raws, dg, destroyed, failedCtor, ksock, ioVars, littleEndian, hist>>

-----------------------------------------------------------------------------
(* DgramPacketStream: construction and destruction *)

\* DgramPacketStream::new(ifname, dest, protocol).
DgramPacketStream_new(ifname, dest, protocol) ==
    /\ ~dg.live
    /\ \E ok \in BOOLEAN, kidx \in 0 .. MaxIfIndex :
         LET fd == KSocket(ok)
             r  == index_by_name(ifname, kidx) IN
         /\ call' = [op |-> "DgramPacketStream::new", name |-> ifname, dest |-> dest,
                     protocol |-> protocol]
         /\ IF fd = -1
            THEN /\ result' = Res("Err(OS)", 0)
                 /\ syscalls' = <<SockCall("SOCK_DGRAM", fd)>>
                 /\ UNCHANGED <<fds, nextSock, dg, failedCtor, hist>>
            ELSE /\ fds' = [fds EXCEPT ![fd] = nextSock + 1]
                 /\ nextSock' = nextSock + 1
                 /\ syscalls' = <<SockCall("SOCK_DGRAM", fd)>> \o r.calls
                 /\ IF r.res.tag # "Ok"
                    THEN /\ result' = r.res
                         /\ failedCtor' = failedCtor \cup {nextSock + 1}
                         /\ UNCHANGED <<dg, hist>>
                    ELSE /\ result' = Res("Ok", fd)
                         /\ dg' = [live |-> TRUE, ifindex |-> r.res.val, dest |-> dest,
                                   protocol_nbo |-> to_be(protocol), fd |-> fd,
                                   sock |-> nextSock + 1]
                         /\ hist' = [hist EXCEPT !.ifindex = kidx, !.dest = dest,
                                                 !.protocol = protocol,
                                                 !.ctorIfindex = kidx, !.ctorDest = dest]
                         /\ UNCHANGED failedCtor
    /\ UNCHANGED <<raws, extracted, badClose, destroyed, ksock, ioVars, littleEndian>>

\* drop of the DgramPacketStream: the type has no Drop impl and its fields are
\* plain integers, so destroying the value issues no system call.
DgramPacketStream_drop ==
    /\ dg.live
    /\ dg' = NoDgram
    /\ destroyed' = destroyed \cup {dg.sock}
    /\ call' = [op |-> "drop dgram"]
    /\ result' = Res("Ok", 0)
    /\ syscalls' = <<>>
    /\ UNCHANGED <<fds, nextSock, raws, extracted, badClose, failedCtor, ksock, ioVars,
                   littleEndian, hist>>

-----------------------------------------------------------------------------
(* SpecOwn: descriptor ownership *)

NoHist ==
    [ifindex |-> 0, dest |-> <<0, 0, 0, 0, 0, 0, 0, 0>>, protocol |-> 0,
     ctorIfindex |-> 0, ctorDest |-> <<0, 0, 0, 0, 0, 0, 0, 0>>,
     nbOk |-> FALSE, getfl |-> -1, readEmpty |-> FALSE, qlen |-> 0, err |-> ""]

InitKernelIdle ==
    /\ ksock = [bound |-> 0]
    /\ flags = O_RDWR
    /\ queue = <<>>
    /\ sk_err = ""
    /\ arrivals = 0
    /\ pc = "idle"
    /\ call = NoCall
    /\ result = Res("Ok", 0)
    /\ syscalls = <<>>

InitOwn ==
    /\ fds = [f \in FdRange |-> 0]
    /\ nextSock = 0
    /\ raws = [i \in RawIds |-> NoRaw]
    /\ dg = NoDgram
    /\ extracted = {}
    /\ badClose = FALSE
    /\ destroyed = {}
    /\ failedCtor = {}
    /\ hist = NoHist
    /\ littleEndian \in BOOLEAN
    /\ InitKernelIdle

\* Names used by the ownership specification: a short one and a too long one.
OwnNames == { n \in Names : Len(n) \in {4, MaxNameLen} }

\* The destination and protocol the ownership specification constructs with.
OwnDest == <<255, 255, 255, 255, 255, 255, 0, 0>>
OwnProtocol == CHOOSE p \in Protocols : p \div 256 = 8

NextOwn ==
    \/ \E i \in RawIds : RawPacketStream_new(i)
    \/ \E i, j \in RawIds : RawPacketStream_clone(i, j)
    \/ \E i \in RawIds : RawPacketStream_drop(i)
    \/ \E i \in RawIds : into_raw_fd(i)
    \/ \E j \in RawIds, e \in extracted : from_raw_fd(j, e)
    \/ \E e \in extracted : CallerClose(e)
    \/ \E n \in OwnNames : DgramPacketStream_new(n, OwnDest, OwnProtocol)
    \/ DgramPacketStream_drop

SpecOwn == InitOwn /\ [][NextOwn]_vars


\* C1: a descriptor returned by into_raw_fd is still open, and still the socket
\* it was, for as long as the caller holds it (until the caller closes it or a
\* wrapper adopts it), and the instance it was extracted from issues no close.
ExtractedStaysOpen ==
    /\ \A e \in extracted : fds[e.fd] = e.sock
    /\ call.op = "into_raw_fd" => syscalls = <<>>

\* C2: at every moment at most one live wrapper holds a given descriptor, no
\* close ever hits a descriptor that is closed already or is another owner's by
\* now, and every live RawPacketStream holds a descriptor that is still open.
SingleOwner ==
    /\ \A i, j \in RawIds :
         (i # j /\ raws[i].live /\ raws[j].live) => raws[i].fd # raws[j].fd
    /\ ~badClose
    /\ \A i \in RawIds : raws[i].live => fds[raws[i].fd] = raws[i].sock

\* C3: no socket whose owning stream (of either type) was dropped remains open.
DestroyedReleased ==
    \A s \in destroyed : \A f \in FdRange : fds[f] # s

\* C10: no socket opened by a constructor call that returned an error remains
\* open.
FailedCtorReleased ==
    \A s \in failedCtor : \A f \in FdRange : fds[f] # s

-----------------------------------------------------------------------------
(* Configuration of a RawPacketStream *)

\* (ETH_P_ALL as u16)
ETH_P_ALL == 3

\* The sockaddr_ll bind_by_index fills in.
bind_by_index(ifindex) ==
    [sll_family |-> "AF_PACKET", sll_protocol |-> to_be(ETH_P_ALL), sll_ifindex |-> ifindex]

\* bind(name) / bind_internal(name) on the stream in slot i.
bind(i, name) ==
    /\ raws[i].live
    /\ \E kidx \in 0 .. MaxIfIndex, res \in {0, -1} :
         LET r == index_by_name(name, kidx) IN
         /\ call' = [op |-> "bind", name |-> name]
         /\ IF r.res.tag # "Ok"
            THEN /\ result' = r.res
                 /\ syscalls' = r.calls
                 /\ UNCHANGED ksock
            ELSE /\ syscalls' = r.calls \o
                       <<[call |-> "bind", fd |-> raws[i].fd, addr |-> bind_by_index(r.res.val),
                          ret |-> res]>>
                 /\ result' = IF res = -1 THEN Res("Err(OS)", 0) ELSE Res("Ok", 0)
                 /\ ksock' = IF res = -1 THEN ksock ELSE [ksock EXCEPT !.bound = r.res.val]
    /\ UNCHANGED <<ownVars, dg, ioVars, littleEndian, hist>>

\* The membership option set_promisc_internal chooses.
packet_membership(state) ==
    IF state THEN "PACKET_ADD_MEMBERSHIP" ELSE "PACKET_DROP_MEMBERSHIP"

\* set_promisc(name, state) / set_promisc_internal on the stream in slot i.
set_promisc(i, name, state) ==
    /\ raws[i].live
    /\ \E kidx \in 0 .. MaxIfIndex, res \in {0, -1} :
         LET r == index_by_name(name, kidx) IN
         /\ call' = [op |-> "set_promisc", name |-> name, state |-> state]
         /\ IF r.res.tag # "Ok"
            THEN /\ result' = r.res
                 /\ syscalls' = r.calls
                 /\ UNCHANGED ksock
            ELSE /\ syscalls' = r.calls \o
                       <<[call |-> "setsockopt", fd |-> raws[i].fd, level |-> "SOL_PACKET",
                          opt |-> packet_membership(state),
                          mreq |-> [mr_ifindex |-> r.res.val, mr_type |-> "PACKET_MR_PROMISC"],
                          ret |-> res]>>
                 /\ result' = IF res = -1 THEN Res("Err(OS)", 0) ELSE Res("Ok", 0)
                 /\ UNCHANGED ksock
    /\ UNCHANGED <<ownVars, dg, ioVars, littleEndian, hist>>

-----------------------------------------------------------------------------
(* DgramPacketStream: setters and write *)

\* self.ifindex = idx
store_ifindex(d, idx) == [d EXCEPT !.ifindex = idx]

\* set_ifname(ifname)
set_ifname(ifname) ==
    /\ dg.live
    /\ \E kidx \in 0 .. MaxIfIndex :
         LET r == index_by_name(ifname, kidx) IN
         /\ call' = [op |-> "set_ifname", name |-> ifname]
         /\ result' = IF r.res.tag = "Ok" THEN Res("Ok", 0) ELSE r.res
         /\ syscalls' = r.calls
         /\ dg' = IF r.res.tag = "Ok" THEN store_ifindex(dg, r.res.val) ELSE dg
         /\ hist' = IF r.res.tag = "Ok" THEN [hist EXCEPT !.ifindex = kidx] ELSE hist
    /\ UNCHANGED <<ownVars, ksock, ioVars, littleEndian>>

\* A set_dest that forgets to store.
store_dest_dropped(d, dest) == d

\* self.dest = dest
store_dest(d, dest) == [d EXCEPT !.dest = dest]

\* set_dest(dest)
set_dest(dest) ==
    /\ dg.live
    /\ dg' = store_dest(dg, dest)
    /\ hist' = [hist EXCEPT !.dest = dest]
    /\ call' = [op |-> "set_dest", dest |-> dest]
    /\ result' = Res("Ok", 0)
    /\ syscalls' = <<>>
    /\ UNCHANGED <<ownVars, ksock, ioVars, littleEndian>>

\* The sockaddr_ll send_to fills in.
send_to(ifindex, dest, protocol_nbo) ==
    [sll_halen |-> Len(dest), sll_addr |-> dest, sll_ifindex |-> ifindex,
     sll_protocol |-> protocol_nbo]

\* <DgramPacketStream as Write>::write(buf): send_to with the stored fields.
DgramPacketStream_write(buf) ==
    /\ dg.live
    /\ \E res \in {-1, Len(buf)} :
         /\ syscalls' = <<[call |-> "sendto", fd |-> dg.fd, len |-> Len(buf),
                           addr |-> send_to(dg.ifindex, dg.dest, dg.protocol_nbo),
                           ret |-> res]>>
         /\ result' = IF res = -1 THEN Res("Err(OS)", 0) ELSE Res("Ok", res)
    /\ call' = [op |-> "write", len |-> Len(buf)]
    /\ UNCHANGED <<ownVars, dg, ksock, ioVars, littleEndian, hist>>

-----------------------------------------------------------------------------
(* SpecCfg: one RawPacketStream and one DgramPacketStream, both constructed *)

Bufs == { <<>>, <<170, 187>> }

InitCfg ==
    /\ fds = [f \in FdRange |-> IF f = 3 THEN 1 ELSE IF f = 4 THEN 2 ELSE 0]
    /\ nextSock = 2
    /\ raws = [i \in RawIds |-> IF i = 1 THEN [live |-> TRUE, fd |-> 3, sock |-> 1] ELSE NoRaw]
    /\ littleEndian \in BOOLEAN
    /\ \E p \in Protocols :
         /\ dg = [live |-> TRUE, ifindex |-> 1, dest |-> OwnDest,
                  protocol_nbo |-> to_be(p), fd |-> 4, sock |-> 2]
         /\ hist = [NoHist EXCEPT !.ifindex = 1, !.dest = OwnDest, !.protocol = p,
                                  !.ctorIfindex = 1, !.ctorDest = OwnDest]
    /\ extracted = {}
    /\ badClose = FALSE
    /\ destroyed = {}
    /\ failedCtor = {}
    /\ InitKernelIdle

NextCfg ==
    \/ \E n \in Names : bind(1, n)
    \/ \E n \in Names, st \in BOOLEAN : set_promisc(1, n, st)
    \/ \E n \in Names : set_ifname(n)
    \/ \E d \in Dests : set_dest(d)
    \/ \E b \in Bufs : DgramPacketStream_write(b)

SpecCfg == InitCfg /\ [][NextCfg]_vars


\* C5: every DgramPacketStream::write passes to sendto the interface index and
\* the destination bytes of the most recent successful set_ifname / set_dest
\* (the constructor's when there was none) and the constructor's protocol in
\* network byte order; a set_ifname that fails leaves the stored index as it was.
WriteUsesCurrent ==
    /\ call.op = "write" =>
         /\ Len(syscalls) = 1
         /\ syscalls[1].call = "sendto"
         /\ syscalls[1].fd = dg.fd
         /\ syscalls[1].addr.sll_ifindex = hist.ifindex
         /\ syscalls[1].addr.sll_addr = hist.dest
         /\ syscalls[1].addr.sll_halen = 8
         /\ Bytes16(syscalls[1].addr.sll_protocol)
              = <<hist.protocol \div 256, hist.protocol % 256>>
    /\ (call.op = "set_ifname" /\ result.tag # "Ok") => dg.ifindex = hist.ifindex

\* A write after both setters changed what the constructor stored.
WriteAfterSetters ==
    /\ call.op = "write"
    /\ hist.ifindex # hist.ctorIfindex
    /\ hist.dest # hist.ctorDest
    /\ syscalls[1].addr.sll_ifindex = hist.ifindex
    /\ syscalls[1].addr.sll_addr = hist.dest
    /\ littleEndian

NameOps == {"bind", "set_promisc", "set_ifname"}

\* C8: bind, set_promisc and set_ifname called with a name longer than IFNAMSIZ
\* return the invalid-input error, issue no system call (no if_nametoindex, no
\* bind, no setsockopt) and change neither the streams nor the socket.
LongNameRejected ==
    [][ (call'.op \in NameOps /\ Len(call'.name) > IFNAMSIZ) =>
          /\ result' = Res("Err(InvalidInput)", 0)
          /\ syscalls' = <<>>
          /\ dg' = dg
          /\ raws' = raws
          /\ ksock' = ksock
          /\ fds' = fds
          /\ flags' = flags ]_vars

\* A bind with a too long name was rejected on a socket bound before.
LongNameTried ==
    /\ call.op = "bind"
    /\ Len(call.name) > IFNAMSIZ
    /\ result.tag = "Err(InvalidInput)"
    /\ ksock.bound # 0

\* C9: the buffer every name-to-index query hands to the kernel holds the
\* name's bytes followed by at least one zero byte inside the buffer.
NameBufTerminated ==
    \A k \in 1 .. Len(syscalls) :
        syscalls[k].call = "if_nametoindex" =>
            /\ \A i \in 1 .. Len(call.name) : syscalls[k].buf[i] = call.name[i]
            /\ \E i \in (Len(call.name) + 1) .. IFNAMSIZ : syscalls[k].buf[i] = 0


-----------------------------------------------------------------------------
(* SpecFilter: set_bpf_filter *)

\* impl From<Filter> for sock_filter
sock_filter_from(f) == [code |-> f[1], jt |-> f[2], jf |-> f[3], k |-> f[4]]

\* .collect(): the mapped rules as one array (a sequence value, in order).
collect(f) == f \o <<>>

\* filters.len() as u16
as_u16(n) == n % U16Mod

\* The sock_fprog set_bpf_filter_internal builds: the 16-bit instruction count
\* and the address of the converted rules (here: the array it points to).
sock_fprog(filter) ==
    LET filters == collect([k \in 1 .. Len(filter) |-> sock_filter_from(filter[k])])
    IN  [len |-> as_u16(Len(filters)), filter |-> filters]

\* What setsockopt(SO_ATTACH_FILTER) takes from a sock_fprog: the count, and
\* that many instructions read from the address.
KernelReads(prog) ==
    [len |-> prog.len, filter |-> SubSeq(prog.filter, 1, prog.len)]

\* A filter program is written down as its first rules (head), its length n
\* and the rule that fills the places after the head.
Rule(d, k) == IF k <= Len(d.head) THEN d.head[k] ELSE d.fill

\* The FilterProgram (Vec<Filter>) a description stands for.
FilterProgramOf(d) == collect([k \in 1 .. d.n |-> Rule(d, k)])

\* set_bpf_filter(filter) / set_bpf_filter_internal on the stream in slot i,
\* with the program that d describes.
set_bpf_filter(i, d) ==
    /\ raws[i].live
    /\ \E filter \in {FilterProgramOf(d)} :
       \E program \in {sock_fprog(filter)} :
       \E taken \in {KernelReads(program)}, res \in {0, -1} :
         /\ syscalls' = <<[call |-> "setsockopt", fd |-> raws[i].fd, level |-> "SOL_SOCKET",
                           opt |-> "SO_ATTACH_FILTER", program |-> taken, ret |-> res]>>
         /\ result' = IF res = -1 THEN Res("Err(OS)", 0) ELSE Res("Ok", 0)
    /\ call' = [op |-> "set_bpf_filter", filter |-> d]
    /\ UNCHANGED <<ownVars, dg, ksock, ioVars, littleEndian, hist>>

\* Filter rules: ret 0; ret 0xffff; ldh [12].
FilterRules == { <<6, 0, 0, 0>>, <<6, 0, 0, 65535>>, <<40, 0, 0, 12>> }

\* Every program of up to MaxRules rules, and three long ones whose lengths
\* are around the capacity of the 16-bit count.
ShortPrograms ==
    { [head |-> h, n |-> Len(h), fill |-> <<6, 0, 0, 0>>] :
        h \in UNION { [1 .. n -> FilterRules] : n \in 0 .. MaxRules } }
LongPrograms ==
    { [head |-> <<<<40, 0, 0, 12>>>>, n |-> n, fill |-> <<6, 0, 0, 65535>>] :
        n \in {U16Mod - 1, U16Mod, U16Mod + 1} }
FilterPrograms == ShortPrograms \cup LongPrograms

InitFilter ==
    /\ fds = [f \in FdRange |-> IF f = 3 THEN 1 ELSE 0]
    /\ nextSock = 1
    /\ raws = [i \in RawIds |-> IF i = 1 THEN [live |-> TRUE, fd |-> 3, sock |-> 1] ELSE NoRaw]
    /\ dg = NoDgram
    /\ littleEndian \in BOOLEAN
    /\ hist = NoHist
    /\ extracted = {}
    /\ badClose = FALSE
    /\ destroyed = {}
    /\ failedCtor = {}
    /\ InitKernelIdle

NextFilter ==
    \E f \in FilterPrograms : set_bpf_filter(1, f)

SpecFilter == InitFilter /\ [][NextFilter]_vars

\* C7: the program handed to the kernel is the input program: the array has as
\* many entries as the input has rules, entry by entry the four fields are the
\* input tuple's, and the count in the program header is the number of rules.
FilterHandedIntact ==
    call.op = "set_bpf_filter" =>
        LET n == call.filter.n IN
        /\ syscalls[1].program.len = n
        /\ Len(syscalls[1].program.filter) = n
        /\ \A k \in 1 .. n :
             /\ syscalls[1].program.filter[k].code = Rule(call.filter, k)[1]
             /\ syscalls[1].program.filter[k].jt = Rule(call.filter, k)[2]
             /\ syscalls[1].program.filter[k].jf = Rule(call.filter, k)[3]
             /\ syscalls[1].program.filter[k].k = Rule(call.filter, k)[4]


-----------------------------------------------------------------------------
(* The kernel's side of read, recv and fcntl on the raw stream's descriptor *)

\* Whether the descriptor a stream holds is open.
FdValid(s) == fds[s.fd] # 0

Min(a, b) == IF a <= b THEN a ELSE b

\* read(fd, buf, buflen) / recv(fd, buf, buflen, flags) on a packet socket:
\* a closed descriptor fails, a pending socket error is reported (and cleared)
\* before the queue is looked at, a queued frame is taken whole and copied up
\* to buflen bytes, and an empty queue fails with EAGAIN when the call may not
\* wait and makes the caller wait otherwise.
KRecv(s, nonblock, buflen) ==
    IF ~FdValid(s)
    THEN [wait |-> FALSE, rv |-> -1, errno |-> "EBADF", queue |-> queue, sk_err |-> sk_err]
    ELSE IF sk_err # ""
    THEN [wait |-> FALSE, rv |-> -1, errno |-> sk_err, queue |-> queue, sk_err |-> ""]
    ELSE IF queue # <<>>
    THEN [wait |-> FALSE, rv |-> Min(Head(queue), buflen), errno |-> "",
          queue |-> Tail(queue), sk_err |-> sk_err]
    ELSE IF nonblock
    THEN [wait |-> FALSE, rv |-> -1, errno |-> "EAGAIN", queue |-> queue, sk_err |-> sk_err]
    ELSE [wait |-> TRUE, rv |-> 0, errno |-> "", queue |-> queue, sk_err |-> sk_err]

\* A call that may wait would wait: the descriptor is a socket with no queued
\* data and nothing to report.
KWouldWait(s) == FdValid(s) /\ sk_err = "" /\ queue = <<>>

\* fcntl(fd, F_GETFL)
KGetFl(s) == IF FdValid(s) THEN flags ELSE -1

\* fcntl(fd, F_SETFL, arg): the access mode stays, the status flags become arg's.
KSetFl(cur, arg) == (cur % 4) + (arg - (arg % 4))

\* Error::last_os_error(): the error the caller sees for an errno.
last_os_error(errno) ==
    IF errno = "EAGAIN" THEN Res("Err(WouldBlock)", 0) ELSE Res("Err(OS)", 0)

-----------------------------------------------------------------------------
(* set_non_blocking, read, drain *)

\* A set_non_blocking that passes O_NONBLOCK alone.
new_flags_only(res) == O_NONBLOCK

\* res | libc::O_NONBLOCK
new_flags(res) == BitOr(res, O_NONBLOCK)

\* set_non_blocking() on the stream in slot i.
set_non_blocking(i) ==
    /\ pc = "idle"
    /\ raws[i].live
    /\ \E setres \in {0, -1} :
         LET res1 == KGetFl(raws[i])
             res  == IF res1 # -1 THEN setres ELSE res1 IN
         /\ syscalls' =
              IF res1 # -1
              THEN <<[call |-> "fcntl", fd |-> raws[i].fd, cmd |-> "F_GETFL", arg |-> 0,
                      ret |-> res1],
                     [call |-> "fcntl", fd |-> raws[i].fd, cmd |-> "F_SETFL",
                      arg |-> new_flags(res1), ret |-> setres]>>
              ELSE <<[call |-> "fcntl", fd |-> raws[i].fd, cmd |-> "F_GETFL", arg |-> 0,
                      ret |-> res1]>>
         /\ flags' = IF res1 # -1 /\ setres = 0 THEN KSetFl(flags, new_flags(res1)) ELSE flags
         /\ result' = IF res = -1 THEN Res("Err(OS)", 0) ELSE Res("Ok", 0)
         /\ hist' = [hist EXCEPT !.nbOk = (@ \/ res # -1), !.getfl = res1]
    /\ call' = [op |-> "set_non_blocking"]
    /\ UNCHANGED <<ownVars, dg, ksock, queue, sk_err, arrivals, pc, littleEndian>>

\* <RawPacketStream as RawPacketStream_read>::read(buf) with a buffer of buflen bytes: read_fd.
\* On a socket that would make the caller wait, the caller stays in the call.
RawPacketStream_read(i, buflen) ==
    /\ pc = "idle"
    /\ raws[i].live
    /\ LET o == KRecv(raws[i], HasBit(flags, O_NONBLOCK), buflen) IN
       /\ pc' = IF o.wait THEN "read" ELSE "idle"
       /\ result' = IF o.wait THEN Res("Pending", 0)
                    ELSE IF o.rv < 0 THEN last_os_error(o.errno) ELSE Res("Ok", o.rv)
       /\ queue' = o.queue
       /\ sk_err' = o.sk_err
       /\ hist' = [hist EXCEPT !.readEmpty = KWouldWait(raws[i]),
                               !.err = IF o.wait THEN "" ELSE o.errno]
    /\ call' = [op |-> "read", len |-> buflen]
    /\ syscalls' = <<[call |-> "read", fd |-> raws[i].fd, len |-> buflen]>>
    /\ UNCHANGED <<ownVars, dg, ksock, flags, arrivals, littleEndian>>

\* The read a caller waits in returns once the kernel has something for it.
read_fd_returns(i) ==
    /\ pc = "read"
    /\ LET o == KRecv(raws[i], FALSE, call.len) IN
       /\ ~o.wait
       /\ result' = IF o.rv < 0 THEN last_os_error(o.errno) ELSE Res("Ok", o.rv)
       /\ queue' = o.queue
       /\ sk_err' = o.sk_err
       /\ hist' = [hist EXCEPT !.err = o.errno]
    /\ pc' = "idle"
    /\ UNCHANGED <<ownVars, dg, ksock, flags, arrivals, call, syscalls, littleEndian>>

\* A drain whose recv may wait.
drain_recv_flags_none == {}

\* The flags drain_internal passes to recv.
drain_recv_flags == {"MSG_DONTWAIT"}

\* drain() is called on the stream in slot i: the one-byte buffer is set up.
drain(i) ==
    /\ pc = "idle"
    /\ raws[i].live
    /\ pc' = "drain"
    /\ call' = [op |-> "drain"]
    /\ result' = Res("Pending", 0)
    /\ syscalls' = <<>>
    /\ UNCHANGED <<ownVars, dg, ksock, flags, queue, sk_err, arrivals, littleEndian, hist>>

\* One turn of drain_internal's loop: recv into the one-byte buffer, and leave
\* the loop (and return ()) when it answers -1.
drain_internal_loop(i) ==
    /\ pc = "drain"
    /\ LET o == KRecv(raws[i],
                      "MSG_DONTWAIT" \in drain_recv_flags \/ HasBit(flags, O_NONBLOCK), 1) IN
       /\ ~o.wait
       /\ syscalls' = Append(syscalls, [call |-> "recv", fd |-> raws[i].fd, len |-> 1,
                                        flags |-> drain_recv_flags, ret |-> o.rv])
       /\ queue' = o.queue
       /\ sk_err' = o.sk_err
       /\ IF o.rv = -1
          THEN /\ pc' = "idle"
               /\ result' = Res("Ok", 0)
               /\ hist' = [hist EXCEPT !.err = o.errno, !.qlen = Len(o.queue)]
          ELSE /\ pc' = "drain"
               /\ UNCHANGED <<result, hist>>
    /\ UNCHANGED <<ownVars, dg, ksock, flags, arrivals, call, littleEndian>>

-----------------------------------------------------------------------------
(* The environment of the socket *)

FrameLens == {60, 90}
BufLens == {1, 64}

\* A frame of len bytes is queued on the socket.
Arrive(i, len) ==
    /\ raws[i].live
    /\ FdValid(raws[i])
    /\ arrivals < MaxArrivals
    /\ queue' = Append(queue, len)
    /\ arrivals' = arrivals + 1
    /\ UNCHANGED <<ownVars, dg, ksock, flags, sk_err, pc, call, result, syscalls,
                   littleEndian, hist>>

\* The interface goes down: the socket gets a pending error.
NetDown(i) ==
    /\ raws[i].live
    /\ FdValid(raws[i])
    /\ sk_err = ""
    /\ sk_err' = "ENETDOWN"
    /\ UNCHANGED <<ownVars, dg, ksock, flags, queue, arrivals, pc, call, result, syscalls,
                   littleEndian, hist>>

-----------------------------------------------------------------------------
(* SpecIO: one RawPacketStream, made by new() or adopted by from_raw_fd *)

\* The flags a descriptor can come with: a new socket's, and those of an
\* adopted descriptor.
InitFlags == { O_RDWR, O_RDWR + O_APPEND, O_RDWR + O_NONBLOCK }

InitIO ==
    /\ \E open \in BOOLEAN :
         /\ fds = [f \in FdRange |-> IF f = 3 /\ open THEN 1 ELSE 0]
         /\ flags \in IF open THEN InitFlags ELSE {O_RDWR}
    /\ nextSock = 1
    /\ raws = [i \in RawIds |-> IF i = 1 THEN [live |-> TRUE, fd |-> 3, sock |-> 1] ELSE NoRaw]
    /\ dg = NoDgram
    /\ littleEndian = TRUE
    /\ hist = NoHist
    /\ extracted = {}
    /\ badClose = FALSE
    /\ destroyed = {}
    /\ failedCtor = {}
    /\ ksock = [bound |-> 0]
    /\ queue = <<>>
    /\ sk_err = ""
    /\ arrivals = 0
    /\ pc = "idle"
    /\ call = NoCall
    /\ result = Res("Ok", 0)
    /\ syscalls = <<>>

NextIO ==
    \/ set_non_blocking(1)
    \/ \E b \in BufLens : RawPacketStream_read(1, b)
    \/ read_fd_returns(1)
    \/ drain(1)
    \/ drain_internal_loop(1)
    \/ \E l \in FrameLens : Arrive(1, l)
    \/ NetDown(1)

\* The thread that called drain keeps running its loop.
SpecIO == InitIO /\ [][NextIO]_vars /\ WF_vars(drain_internal_loop(1))

FlagBits == { 2 ^ k : k \in 0 .. 13 }

\* C6: when set_non_blocking returns success the non-blocking flag is set and
\* every other flag is as F_GETFL returned it; from then on a read on a socket
\* with nothing to deliver returns would-block and the caller does not wait;
\* set_non_blocking returns an error exactly when the flag read or the flag
\* write failed, and after a failed flag read it attempts no flag write.
NonBlockingHolds ==
    /\ call.op = "set_non_blocking" =>
         /\ result.tag = "Ok" =>
              /\ HasBit(flags, O_NONBLOCK)
              /\ \A b \in FlagBits \ {O_NONBLOCK} : HasBit(flags, b) = HasBit(hist.getfl, b)
         /\ result.tag # "Ok" <=> \E k \in 1 .. Len(syscalls) : syscalls[k].ret = -1
         /\ syscalls[1].cmd = "F_GETFL"
         /\ syscalls[1].ret = -1 => Len(syscalls) = 1
         /\ syscalls[1].ret # -1 => (Len(syscalls) = 2 /\ syscalls[2].cmd = "F_SETFL")
    /\ hist.nbOk => HasBit(flags, O_NONBLOCK)
    /\ (hist.nbOk /\ call.op = "read" /\ hist.readEmpty) =>
         (pc = "idle" /\ result = Res("Err(WouldBlock)", 0))

\* set_non_blocking succeeded on a descriptor that had O_APPEND set and was
\* blocking, and a read on the empty socket returned would-block.
NonBlockingRead ==
    /\ hist.nbOk
    /\ ~HasBit(hist.getfl, O_NONBLOCK)
    /\ HasBit(flags, O_APPEND)
    /\ call.op = "read"
    /\ hist.readEmpty
    /\ result.tag = "Err(WouldBlock)"

\* C4 as stated: when drain returns, the receive queue is empty, whatever
\* failure ended the loop.
DrainLeavesEmpty ==
    (call.op = "drain" /\ pc = "idle") => (result = Res("Ok", 0) /\ hist.qlen = 0)

\* C4 as amended: drain returns () without an error; when the receive that
\* ended the loop failed with would-block, the queue is empty at that moment;
\* every receive that succeeds takes one frame off the queue; and a drain that
\* was called returns, given that frames stop arriving.
DrainAmended ==
    /\ [][ (pc = "drain" /\ pc' = "idle") =>
             /\ result' = Res("Ok", 0)
             /\ syscalls'[Len(syscalls')].ret = -1
             /\ hist'.err = "EAGAIN" => queue' = <<>> ]_vars
    /\ [][ (pc = "drain" /\ pc' = "drain" /\ syscalls' # syscalls) =>
             /\ Len(queue') = Len(queue) - 1
             /\ syscalls'[Len(syscalls')].ret = 1 ]_vars
    /\ (pc = "drain") ~> (pc = "idle")

\* A drain that discarded two queued frames and returned on would-block.
DrainedTwo ==
    /\ call.op = "drain"
    /\ pc = "idle"
    /\ Len(syscalls) = 3
    /\ hist.err = "EAGAIN"
    /\ hist.qlen = 0

=============================================================================
